---- MODULE Spec2Model ----
(***************************************************************************)
(* Verification model of the CSV splitter's allocation code.               *)
(*                                                                         *)
(*   Spec     the config-array splitData of src/src/utils/csvUtils.ts      *)
(*            (lines 99-205), one action per forEach iteration             *)
(*   SpecIdx  the modular splitData of src/unnamed/part_006 (lines 4-77),  *)
(*            which keys groups by <accountName>_<sentType>_<index>        *)
(*                                                                         *)
(*   SpecCsv  objectsToCSV and parseCSV of src/src/utils/csvUtils.ts       *)
(*            (lines 7-96), one action per row written and per line read   *)
(*   SpecForm SplitterForm and Index of src/unnamed/part_007 (lines        *)
(*            22-444), one action per event handler and per file read      *)
(*                                                                         *)
(* A row is a function from column names to strings.  A group of the       *)
(* result is a sequence of entries [src, row]: row is the object pushed   *)
(* by the code and src is the 0-based index i of the data[i] it was        *)
(* spread from (the loop variable of the push loop).                       *)
(***************************************************************************)
EXTENDS Integers, Sequences, FiniteSets, TLC

VARIABLES data, configs, pc, result, index, startIndex,
          configsWithoutSplitSizeCount, recordsForThisSplit, remainingData,
          origin, objs, hdrArg, rowValues, csvString, lines, headers, parsed,
          file, splitConfigs, csvData, formHeaders, processedData,
          hasProcessed, reading, originalData, loading,
          totalAllocated, configsWithNoSize, recordsPerConfig, configsProcessed

\* The state of the CSV codec: the arguments and locals of objectsToCSV
\* (objs, hdrArg, rowValues), the text (csvString) and the locals of
\* parseCSV (lines, headers, parsed).
csvVars == <<origin, objs, hdrArg, rowValues, csvString, lines, headers, parsed>>

\* The state of the page: the useState cells of SplitterForm (formHeaders is
\* its headers cell), the file reads its handleFileSelected calls are
\* awaiting (reading), the originalData cell of Index and the file reads the
\* handleFileLoaded calls of Index are awaiting (loading).
formVars == <<file, splitConfigs, csvData, formHeaders, processedData,
              hasProcessed, reading, originalData, loading>>

\* The locals of the two-pass splitData of src/unnamed/part_000 that the
\* other allocators do not have.
tpVars == <<totalAllocated, configsWithNoSize, recordsPerConfig, configsProcessed>>

\* The state the allocator does not touch.
otherVars == <<csvVars, formVars, tpVars>>

vars == <<data, configs, pc, result, index, startIndex,
          configsWithoutSplitSizeCount, recordsForThisSplit, remainingData,
          csvVars, formVars, tpVars>>

\* No codec call is in progress.
CsvIdle ==
  /\ origin = "none"
  /\ objs = <<>>
  /\ hdrArg = <<>>
  /\ rowValues = <<>>
  /\ csvString = <<>>
  /\ lines = <<>>
  /\ headers = <<>>
  /\ parsed = <<>>

\* The two-pass allocator is not running.
TpIdle ==
  /\ totalAllocated = 0
  /\ configsWithNoSize = 0
  /\ recordsPerConfig = 0
  /\ configsProcessed = 0

\* No page is mounted.
FormIdle ==
  /\ file = "none"
  /\ splitConfigs = <<>>
  /\ csvData = <<>>
  /\ formHeaders = <<>>
  /\ processedData = <<>>
  /\ hasProcessed = FALSE
  /\ reading = <<>>
  /\ originalData = <<>>
  /\ loading = <<>>

(***************************************************************************)
(* Bounds of the checked input space.                                      *)
(***************************************************************************)
MaxRows == 5

MaxConfigs == 3

MaxQuota == 2

(***************************************************************************)
(* Inputs.                                                                 *)
(***************************************************************************)
\* One parsed row; "tagged" documents already carry the two reserved columns.
RowOf(kind, i) ==
  IF kind = "plain"
    THEN [email |-> "e" \o ToString(i)]
    ELSE [email |-> "e" \o ToString(i), account |-> "old", sent |-> "old"]

Docs ==
  { [i \in 1..n |-> RowOf(kind, i)] : n \in 0..MaxRows, kind \in {"plain", "tagged"} }

\* (accountName, sentType) pairs a form can hold.  The keys they give are
\* "A_s", "A_s_remainder" and "B_s".
Names ==
  { [accountName |-> "A", sentType |-> "s"],
    [accountName |-> "A", sentType |-> "s_remainder"],
    [accountName |-> "B", sentType |-> "s"] }

Quotas == (-1)..MaxQuota

ConfigSet ==
  { [accountName |-> nm.accountName, sentType |-> nm.sentType, splitSize |-> q] :
      nm \in Names, q \in Quotas }

ConfigLists == UNION { [1..k -> ConfigSet] : k \in 0..MaxConfigs }

(***************************************************************************)
(* JavaScript helpers.                                                     *)
(***************************************************************************)
Min(a, b) == IF a < b THEN a ELSE b

\* Math.ceil(a / b) for integers a and b > 0 (-0 and 0 are the same count).
Ceil(a, b) == -((-a) \div b)

EmptyRow == [c \in {} |-> ""]

EmptyResult == [k \in {} |-> <<>>]

\* data[i] with a 0-based i; an index outside the array reads undefined,
\* and spreading undefined contributes no field.
DataAt(d, i) == IF i \in 0..(Len(d) - 1) THEN d[i + 1] ELSE EmptyRow

\* { ...row, account: acct, sent: snt }
SpreadTag(row, acct, snt) ==
  [c \in DOMAIN row \cup {"account", "sent"} |->
     IF c = "account" THEN acct ELSE IF c = "sent" THEN snt ELSE row[c]]

\* Put that creates the key only for a non-empty group.
PutNonEmpty(res, key, value) ==
  IF value = <<>> THEN res
  ELSE [k \in DOMAIN res \cup {key} |-> IF k = key THEN value ELSE res[k]]

\* result[key] = value
Put(res, key, value) ==
  [k \in DOMAIN res \cup {key} |-> IF k = key THEN value ELSE res[k]]

Key(config) == config.accountName \o "_" \o config.sentType

RemainderKey(config) == Key(config) \o "_remainder"

RemainderSent(config) == config.sentType \o "_remainder"

\* PushLoop with the bound test i <= hi.
PushLoopInclusive(d, lo, hi, acct, snt) ==
  [k \in 1..(IF hi >= lo THEN hi - lo + 1 ELSE 0) |->
     [src |-> lo + k - 1, row |-> SpreadTag(DataAt(d, lo + k - 1), acct, snt)]]

\* for (let i = lo; i < hi; i++) group.push({...d[i], account, sent})
PushLoop(d, lo, hi, acct, snt) ==
  [k \in 1..(IF hi > lo THEN hi - lo ELSE 0) |->
     [src |-> lo + k - 1, row |-> SpreadTag(DataAt(d, lo + k - 1), acct, snt)]]

(***************************************************************************)
(* splitData of csvUtils.ts, lines 99-205.                                 *)
(***************************************************************************)
RECURSIVE SumSpecified(_, _)
SumSpecified(cfgs, k) ==
  IF k = 0 THEN 0
  ELSE SumSpecified(cfgs, k - 1)
         + (IF cfgs[k].splitSize > 0 THEN cfgs[k].splitSize ELSE 0)

nonZeroSplitSizesCount(cfgs) ==
  Cardinality({k \in 1..Len(cfgs) : cfgs[k].splitSize > 0})

ZeroSplitSizeCount(cfgs) ==
  Cardinality({k \in 1..Len(cfgs) : cfgs[k].splitSize = 0})

totalSpecifiedRecords(cfgs) == SumSpecified(cfgs, Len(cfgs))

needsRemainder(d, cfgs) ==
  /\ totalSpecifiedRecords(cfgs) > 0
  /\ totalSpecifiedRecords(cfgs) < Len(d)
  /\ nonZeroSplitSizesCount(cfgs) = Len(cfgs)

\* Lines 127-143: the number of records for the config at 0-based index i.
RecordsFor(d, cfgs, i, start, cnt) ==
  LET splitSize == cfgs[i + 1].splitSize
      wanted ==
        IF splitSize > 0
          THEN Min(splitSize, Len(d) - start)
        ELSE IF cnt > 0
          THEN Ceil(Len(d) - totalSpecifiedRecords(cfgs), cnt)
        ELSE Ceil(Len(d), Len(cfgs))
  IN  Min(wanted, Len(d) - start)

\* Line 136: the counter is decremented only in the second branch.
CountAfter(cfgs, i, cnt) ==
  IF cfgs[i + 1].splitSize <= 0 /\ cnt > 0 THEN cnt - 1 ELSE cnt

\* Lines 123-179: one iteration of configs.forEach on the local state st.
ForEachBody(st, d, cfgs, i) ==
  LET config   == cfgs[i + 1]
      recs     == RecordsFor(d, cfgs, i, st.startIndex, st.configsWithoutSplitSizeCount)
      group    == PushLoop(d, st.startIndex, Min(st.startIndex + recs, Len(d)),
                           config.accountName, config.sentType)
      res1     == Put(st.result, Key(config), group)
      start1   == st.startIndex + recs
      single   == Len(cfgs) = 1 /\ start1 < Len(d)
      res2     == IF single
                    THEN Put(res1, RemainderKey(config),
                             PushLoop(d, start1, Len(d),
                                      config.accountName, RemainderSent(config)))
                    ELSE res1
  IN  [ result |-> res2,
        startIndex |-> IF single THEN Len(d) ELSE start1,
        configsWithoutSplitSizeCount |->
          CountAfter(cfgs, i, st.configsWithoutSplitSizeCount),
        recordsForThisSplit |-> recs ]

\* Lines 183-197: the balance remainder after the loop.
BalanceRemainder(st, d, cfgs) ==
  IF st.startIndex < Len(d) /\ needsRemainder(d, cfgs)
    THEN LET lastConfig == cfgs[Len(cfgs)]
         IN  Put(st.result, RemainderKey(lastConfig),
                 PushLoop(d, st.startIndex, Len(d),
                          lastConfig.accountName, RemainderSent(lastConfig)))
    ELSE st.result

\* Lines 113-115: the locals before the loop.
LoopEntry(cfgs) ==
  [ result |-> EmptyResult,
    startIndex |-> 0,
    configsWithoutSplitSizeCount |-> ZeroSplitSizeCount(cfgs),
    recordsForThisSplit |-> 0 ]

RECURSIVE RunLoop(_, _, _, _)
RunLoop(st, d, cfgs, i) ==
  IF i >= Len(cfgs) THEN st
  ELSE RunLoop(ForEachBody(st, d, cfgs, i), d, cfgs, i + 1)

\* The whole call, as a function of its arguments.
splitData(d, cfgs) ==
  IF Len(d) = 0 THEN EmptyResult
  ELSE BalanceRemainder(RunLoop(LoopEntry(cfgs), d, cfgs, 0), d, cfgs)

Locals ==
  [ result |-> result,
    startIndex |-> startIndex,
    configsWithoutSplitSizeCount |-> configsWithoutSplitSizeCount,
    recordsForThisSplit |-> recordsForThisSplit ]

SetLocals(st) ==
  /\ result' = st.result
  /\ startIndex' = st.startIndex
  /\ configsWithoutSplitSizeCount' = st.configsWithoutSplitSizeCount
  /\ recordsForThisSplit' = st.recordsForThisSplit

Init ==
  /\ data \in Docs
  /\ configs \in ConfigLists
  /\ pc = "entry"
  /\ result = EmptyResult
  /\ index = 0
  /\ startIndex = 0
  /\ configsWithoutSplitSizeCount = 0
  /\ recordsForThisSplit = 0
  /\ remainingData = <<>>
  /\ TpIdle
  /\ CsvIdle
  /\ FormIdle

\* Lines 103-108: no data, return the empty result.
ReturnEmpty ==
  /\ pc = "entry"
  /\ UNCHANGED otherVars
  /\ Len(data) = 0
  /\ pc' = "done"
  /\ UNCHANGED <<data, configs, result, index, startIndex,
                 configsWithoutSplitSizeCount, recordsForThisSplit, remainingData>>

\* Lines 110-120: set up the cursor and the counters.
EnterLoop ==
  /\ pc = "entry"
  /\ UNCHANGED otherVars
  /\ Len(data) # 0
  /\ SetLocals(LoopEntry(configs))
  /\ index' = 0
  /\ pc' = "loop"
  /\ UNCHANGED <<data, configs, remainingData>>

\* Lines 123-179: one forEach iteration.
ProcessConfig ==
  /\ pc = "loop"
  /\ UNCHANGED otherVars
  /\ index < Len(configs)
  /\ SetLocals(ForEachBody(Locals, data, configs, index))
  /\ index' = index + 1
  /\ UNCHANGED <<data, configs, pc, remainingData>>

\* Lines 181-204: the balance remainder, then return.
FinishSplit ==
  /\ pc = "loop"
  /\ UNCHANGED otherVars
  /\ index = Len(configs)
  /\ result' = BalanceRemainder(Locals, data, configs)
  /\ pc' = "done"
  /\ UNCHANGED <<data, configs, index, startIndex,
                 configsWithoutSplitSizeCount, recordsForThisSplit, remainingData>>

Next == ReturnEmpty \/ EnterLoop \/ ProcessConfig \/ FinishSplit

Spec == Init /\ [][Next]_vars

(***************************************************************************)
(* splitData of src/unnamed/part_006, lines 4-77: groups keyed by          *)
(* <accountName>_<sentType>_<index>, rows taken from a shrinking copy.     *)
(***************************************************************************)
IdxKey(config, i) == Key(config) \o "_" \o ToString(i)

\* Line 19: remainingData = [...data]; each element remembers its index.
CopyOf(d) == [k \in 1..Len(d) |-> [src |-> k - 1, row |-> d[k]]]

\* remainingData.slice(n)
SliceFrom(rem, n) ==
  [k \in 1..(IF Len(rem) > n THEN Len(rem) - n ELSE 0) |-> rem[k + n]]

\* Line 39: configs.slice(i).filter(c => c.splitSize <= 0).length
remainingConfigsWithNoSize(cfgs, i) ==
  Cardinality({k \in (i + 1)..Len(cfgs) : cfgs[k].splitSize <= 0})

\* Lines 28-44: the number of records for the config at 0-based index i.
recordsToAllocate(rem, cfgs, i) ==
  LET splitSize == cfgs[i + 1].splitSize
  IN  IF splitSize > 0 THEN Min(splitSize, Len(rem))
      ELSE IF i = Len(cfgs) - 1 THEN Len(rem)
      ELSE IF remainingConfigsWithNoSize(cfgs, i) > 0
        THEN Ceil(Len(rem), remainingConfigsWithNoSize(cfgs, i))
      ELSE 0

\* Lines 53-61: the first n elements of remainingData, tagged.
TakeTagged(rem, n, acct, snt) ==
  [k \in 1..Min(n, Len(rem)) |->
     [src |-> rem[k].src, row |-> SpreadTag(rem[k].row, acct, snt)]]

\* Lines 11-13: nothing to split.
IdxReturnEmpty ==
  /\ pc = "entry"
  /\ UNCHANGED otherVars
  /\ (Len(data) = 0 \/ Len(configs) = 0)
  /\ pc' = "done"
  /\ UNCHANGED <<data, configs, result, index, startIndex,
                 configsWithoutSplitSizeCount, recordsForThisSplit, remainingData>>

\* Lines 15-19: copy the data.
IdxEnterLoop ==
  /\ pc = "entry"
  /\ UNCHANGED otherVars
  /\ Len(data) # 0
  /\ Len(configs) # 0
  /\ remainingData' = CopyOf(data)
  /\ result' = EmptyResult
  /\ index' = 0
  /\ pc' = "loop"
  /\ UNCHANGED <<data, configs, startIndex,
                 configsWithoutSplitSizeCount, recordsForThisSplit>>

\* Lines 22-66: one forEach iteration.
IdxProcessConfig ==
  /\ pc = "loop"
  /\ UNCHANGED otherVars
  /\ index < Len(configs)
  /\ LET config == configs[index + 1]
         n == recordsToAllocate(remainingData, configs, index)
     IN  /\ recordsForThisSplit' = n
         /\ IF n > 0
              THEN /\ result' = Put(result, IdxKey(config, index),
                                    TakeTagged(remainingData, n,
                                               config.accountName, config.sentType))
                   /\ remainingData' = SliceFrom(remainingData, n)
              ELSE UNCHANGED <<result, remainingData>>
  /\ index' = index + 1
  /\ UNCHANGED <<data, configs, pc, startIndex, configsWithoutSplitSizeCount>>

\* Lines 68-76: log and return.
IdxFinish ==
  /\ pc = "loop"
  /\ UNCHANGED otherVars
  /\ index = Len(configs)
  /\ pc' = "done"
  /\ UNCHANGED <<data, configs, result, index, startIndex,
                 configsWithoutSplitSizeCount, recordsForThisSplit, remainingData>>

NextIdx == IdxReturnEmpty \/ IdxEnterLoop \/ IdxProcessConfig \/ IdxFinish

SpecIdx == Init /\ [][NextIdx]_vars

(***************************************************************************)
(* The two-pass splitData of src/unnamed/part_000, lines 98-242.  The      *)
(* first pass serves the configs with a positive splitSize, the second     *)
(* pass shares what is left among the configs with splitSize <= 0, and     *)
(* two closing cases store what nobody took under a "_remainder" key.      *)
(* remainingData and the groups hold [src, row] entries as above.          *)
(***************************************************************************)

\* Lines 117-148: the body of the first loop for configs[i + 1].
FirstPassBody(st, cfgs, i) ==
  LET config == cfgs[i + 1]
      n      == Min(config.splitSize, Len(st.remainingData))
  IN  IF config.splitSize <= 0 \/ n <= 0 THEN st
      ELSE [st EXCEPT
              !.result = Put(st.result, Key(config),
                             TakeTagged(st.remainingData, n,
                                        config.accountName, config.sentType)),
              !.remainingData = SliceFrom(st.remainingData, n),
              !.totalAllocated = st.totalAllocated + n]

\* Line 151: configs.filter(c => config.splitSize <= 0).length
CountNoSize(cfgs) ==
  Cardinality({k \in 1..Len(cfgs) : cfgs[k].splitSize <= 0})

\* Lines 161-192: the body of the second loop for configs[i + 1].
SecondPassBody(st, cfgs, i) ==
  LET config == cfgs[i + 1]
      n      == IF st.configsProcessed = st.configsWithNoSize - 1
                  THEN Len(st.remainingData)
                  ELSE Min(st.recordsPerConfig, Len(st.remainingData))
      taken  == IF n > 0
                  THEN [st EXCEPT
                          !.result = Put(st.result, Key(config),
                                         TakeTagged(st.remainingData, n,
                                                    config.accountName,
                                                    config.sentType)),
                          !.remainingData = SliceFrom(st.remainingData, n)]
                  ELSE st
  IN  IF config.splitSize > 0 THEN st
      ELSE [taken EXCEPT !.configsProcessed = st.configsProcessed + 1]

\* Lines 196-234: a lone config with a quota, or several configs all with a
\* quota, leave the rest under the last config's "_remainder" key.
Remainders(st, cfgs) ==
  LET last    == cfgs[Len(cfgs)]
      stored  == Put(st.result, RemainderKey(last),
                     TakeTagged(st.remainingData, Len(st.remainingData),
                                last.accountName, RemainderSent(last)))
      single  == IF Len(cfgs) = 1 /\ cfgs[1].splitSize > 0
                                  /\ Len(st.remainingData) > 0
                   THEN [st EXCEPT !.result = stored]
                   ELSE st
  IN  IF Len(cfgs) > 1 /\ st.configsWithNoSize = 0
                       /\ Len(single.remainingData) > 0
        THEN [single EXCEPT !.result = stored]
        ELSE single

TpLocals ==
  [ result |-> result,
    remainingData |-> remainingData,
    totalAllocated |-> totalAllocated,
    configsWithNoSize |-> configsWithNoSize,
    recordsPerConfig |-> recordsPerConfig,
    configsProcessed |-> configsProcessed ]

SetTpLocals(st) ==
  /\ result' = st.result
  /\ remainingData' = st.remainingData
  /\ totalAllocated' = st.totalAllocated
  /\ configsWithNoSize' = st.configsWithNoSize
  /\ recordsPerConfig' = st.recordsPerConfig
  /\ configsProcessed' = st.configsProcessed

tpOtherVars == <<csvVars, formVars, startIndex, configsWithoutSplitSizeCount,
                 recordsForThisSplit>>

\* Lines 102-107: nothing to split.
TpReturnEmpty ==
  /\ pc = "entry"
  /\ Len(data) = 0 \/ Len(configs) = 0
  /\ result' = EmptyResult
  /\ pc' = "done"
  /\ UNCHANGED <<data, configs, index, remainingData, tpVars, tpOtherVars>>

\* Lines 102-113: the result, the working copy and the counter.
TpEnterFirst ==
  /\ pc = "entry"
  /\ Len(data) # 0
  /\ Len(configs) # 0
  /\ result' = EmptyResult
  /\ remainingData' = CopyOf(data)
  /\ totalAllocated' = 0
  /\ index' = 0
  /\ pc' = "first"
  /\ UNCHANGED <<data, configs, configsWithNoSize, recordsPerConfig,
                 configsProcessed, tpOtherVars>>

\* Lines 117-148: one iteration of the first loop.
TpSpecified ==
  /\ pc = "first"
  /\ index < Len(configs)
  /\ SetTpLocals(FirstPassBody(TpLocals, configs, index))
  /\ index' = index + 1
  /\ UNCHANGED <<data, configs, pc, tpOtherVars>>

\* Lines 151-158: after the first loop, count the configs without a quota
\* and enter the second loop when there is something left for them.
TpEnterSecond ==
  /\ pc = "first"
  /\ index = Len(configs)
  /\ configsWithNoSize' = CountNoSize(configs)
  /\ IF Len(remainingData) > 0 /\ CountNoSize(configs) > 0
       THEN /\ recordsPerConfig' = Ceil(Len(remainingData), CountNoSize(configs))
            /\ configsProcessed' = 0
            /\ index' = 0
            /\ pc' = "second"
       ELSE /\ pc' = "remainder"
            /\ UNCHANGED <<recordsPerConfig, configsProcessed, index>>
  /\ UNCHANGED <<data, configs, result, remainingData, totalAllocated,
                 tpOtherVars>>

\* Lines 161-192: one iteration of the second loop.
TpUnspecified ==
  /\ pc = "second"
  /\ index < Len(configs)
  /\ SetTpLocals(SecondPassBody(TpLocals, configs, index))
  /\ index' = index + 1
  /\ UNCHANGED <<data, configs, pc, tpOtherVars>>

\* Line 193: the second loop is over.
TpLeaveSecond ==
  /\ pc = "second"
  /\ index = Len(configs)
  /\ pc' = "remainder"
  /\ UNCHANGED <<data, configs, result, index, remainingData, tpVars,
                 tpOtherVars>>

\* Lines 196-241: the closing cases and the return.
TpFinish ==
  /\ pc = "remainder"
  /\ SetTpLocals(Remainders(TpLocals, configs))
  /\ pc' = "done"
  /\ UNCHANGED <<data, configs, index, tpOtherVars>>

NextTp ==
  \/ TpReturnEmpty
  \/ TpEnterFirst
  \/ TpSpecified
  \/ TpEnterSecond
  \/ TpUnspecified
  \/ TpLeaveSecond
  \/ TpFinish

SpecTp == Init /\ [][NextTp]_vars

(***************************************************************************)
(* The CSV codec of src/src/utils/csvUtils.ts, lines 7-96.  A string is a  *)
(* sequence of one-character strings.  A parsed row is the sequence of     *)
(* its [key, value] fields in the order Object.keys lists them (the order  *)
(* of first assignment, after the names that are array indexes).           *)
(***************************************************************************)
MaxTextLen == 5

MaxObjs == 2

Quote == "\""

Comma == ","

NL == "\n"

CR == "\r"

\* The characters String.prototype.trim removes, as far as texts hold them.
Whitespace == {" ", "\t", NL, CR}

TextAlphabet == {"a", Comma, Quote, NL, CR, " "}

\* The quoted-field example of the specification.
QuotedExample ==
  <<"n", "a", "m", "e", Comma, "n", "o", "t", "e", NL, "A", "l", "i",
  "c", "e", Comma, Quote, "h", "e", "l", "l", "o", Comma, " ", "w", "o",
  "r", "l", "d", Quote, NL, "B", "o", "b", Comma, Quote, "s", "h", "e",
  " ", "s", "a", "i", "d", " ", Quote, Quote, "h", "i", Quote, Quote,
  Quote>>

\* The malformed-row example of the specification.
MalformedExample ==
  <<"a", Comma, "b", NL, "1", Comma, "2", NL, "3">>

\* A text whose second column name is a numeral.
NumericHeaderExample ==
  <<"a", Comma, "1", NL, "a", Comma, "b">>

Texts ==
  UNION { [1..n -> TextAlphabet] : n \in 0..MaxTextLen }
    \cup {QuotedExample, MalformedExample, NumericHeaderExample}

\* Column names and cell values handed to objectsToCSV.
HeaderNames == {<<"h">>, <<"k">>, <<"h", Comma, "k">>}

HeaderLists == {<<<<"h">>>>, <<<<"h">>, <<"k">>>>, <<<<"h", Comma, "k">>>>}

Values ==
  { <<>>, <<"a">>, <<"a", Comma, "a">>, <<"a", Quote>>, <<"a", NL, "a">>,
    <<" ", "a">> }

\* The columns other than h hold fewer values, to keep the lists of rows few.
ValuesOf(name) ==
  IF name = <<"k">> THEN {<<>>, <<"a">>, <<"a", Comma, "a">>}
  ELSE IF name = <<"h">> THEN Values
  ELSE {<<"a">>}

\* The rows over a header list: each header is present with some value or
\* missing from the row.
RECURSIVE RowsOver(_)
RowsOver(hs) ==
  IF hs = <<>> THEN {<<>>}
  ELSE LET rest == RowsOver(Tail(hs))
       IN  rest \cup { <<[key |-> Head(hs), value |-> v]>> \o r :
                          v \in ValuesOf(Head(hs)), r \in rest }

ObjLists(hs) == UNION { [1..n -> RowsOver(hs)] : n \in 0..MaxObjs }

\* The optional headers argument: absent, or the list hs.
HeaderArgs(hs) == { [given |-> FALSE, names |-> <<>>], [given |-> TRUE, names |-> hs] }

\* csvString.replace(/\r\n/g, '\n')
RECURSIVE ReplaceCRLF(_)
ReplaceCRLF(t) ==
  IF t = <<>> THEN <<>>
  ELSE IF Len(t) >= 2 /\ t[1] = CR /\ t[2] = NL
    THEN <<NL>> \o ReplaceCRLF(SubSeq(t, 3, Len(t)))
  ELSE <<t[1]>> \o ReplaceCRLF(Tail(t))

\* .replace(/\r/g, '\n')
ReplaceCR(t) == [k \in 1..Len(t) |-> IF t[k] = CR THEN NL ELSE t[k]]

\* A normalisation that leaves the lone '\r' alone.
NormalizeCRLFOnly(t) == ReplaceCRLF(t)

\* Line 9.
Normalize(t) == ReplaceCR(ReplaceCRLF(t))

\* t.split(sep) for a one-character separator.
RECURSIVE SplitOn(_, _)
SplitOn(t, sep) ==
  IF \A k \in 1..Len(t) : t[k] # sep THEN <<t>>
  ELSE LET k == CHOOSE k \in 1..Len(t) :
                  t[k] = sep /\ \A j \in 1..(k - 1) : t[j] # sep
       IN  <<SubSeq(t, 1, k - 1)>> \o SplitOn(SubSeq(t, k + 1, Len(t)), sep)

RECURSIVE TrimStart(_)
TrimStart(t) ==
  IF t # <<>> /\ t[1] \in Whitespace THEN TrimStart(Tail(t)) ELSE t

RECURSIVE TrimEnd(_)
TrimEnd(t) ==
  IF t # <<>> /\ t[Len(t)] \in Whitespace
    THEN TrimEnd(SubSeq(t, 1, Len(t) - 1))
    ELSE t

\* String.prototype.trim
Trim(t) == TrimEnd(TrimStart(t))

\* Lines 33-43: one character of the quote-aware scan.
ScanChar(st, ch) ==
  IF ch = Quote
    THEN [st EXCEPT !.inQuotes = ~st.inQuotes]
  ELSE IF ch = Comma /\ ~st.inQuotes
    THEN [st EXCEPT !.values = Append(st.values, Trim(st.currentValue)),
                    !.currentValue = <<>>]
  ELSE [st EXCEPT !.currentValue = Append(st.currentValue, ch)]

RECURSIVE ScanLine(_, _, _)
ScanLine(st, line, j) ==
  IF j > Len(line) THEN st ELSE ScanLine(ScanChar(st, line[j]), line, j + 1)

\* Lines 29-47: the values of one trimmed line.
SplitFields(line) ==
  LET st == ScanLine([values |-> <<>>, inQuotes |-> FALSE, currentValue |-> <<>>],
                     line, 1)
  IN  Append(st.values, Trim(st.currentValue))

\* t.substring(a, b): both ends clamped to 0..length and swapped if a > b.
Substring(t, a, b) ==
  LET ca == IF a < 0 THEN 0 ELSE IF a > Len(t) THEN Len(t) ELSE a
      cb == IF b < 0 THEN 0 ELSE IF b > Len(t) THEN Len(t) ELSE b
      lo == IF ca < cb THEN ca ELSE cb
      hi == IF ca < cb THEN cb ELSE ca
  IN  SubSeq(t, lo + 1, hi)

\* .replace(/""/g, '"')
RECURSIVE ReplaceDoubled(_)
ReplaceDoubled(t) ==
  IF t = <<>> THEN <<>>
  ELSE IF Len(t) >= 2 /\ t[1] = Quote /\ t[2] = Quote
    THEN <<Quote>> \o ReplaceDoubled(SubSeq(t, 3, Len(t)))
  ELSE <<t[1]>> \o ReplaceDoubled(Tail(t))

\* Lines 59-62: remove quotation marks if present.
Unquote(value) ==
  IF value # <<>> /\ value[1] = Quote /\ value[Len(value)] = Quote
    THEN ReplaceDoubled(Substring(value, 1, Len(value) - 1))
    ELSE value

HasKey(row, key) == \E k \in 1..Len(row) : row[k].key = key

\* The characters of a decimal numeral, by digit value + 1.
Digits == <<"0", "1", "2", "3", "4", "5", "6", "7", "8", "9">>

IsDigit(ch) == \E d \in 1..Len(Digits) : Digits[d] = ch

DigitValue(ch) == (CHOOSE d \in 1..Len(Digits) : Digits[d] = ch) - 1

\* A property name that is a canonical array index: a decimal numeral with
\* no leading zero.  (The names of the model are far below the 2^32 - 1 cap.)
IsArrayIndex(name) ==
  /\ name # <<>>
  /\ \A k \in 1..Len(name) : IsDigit(name[k])
  /\ (Len(name) > 1 => name[1] # "0")

RECURSIVE IndexValue(_)
IndexValue(name) ==
  IF name = <<>> THEN 0
  ELSE 10 * IndexValue(SubSeq(name, 1, Len(name) - 1)) + DigitValue(name[Len(name)])

\* Whether a new property named key is enumerated before the property e: an
\* object lists its array-index keys first, in ascending numeric order, and
\* then its other string keys in insertion order.
EnumeratedBefore(key, e) ==
  /\ IsArrayIndex(key)
  /\ (IsArrayIndex(e.key) => IndexValue(key) < IndexValue(e.key))

\* row[key] = value
SetField(row, key, value) ==
  IF HasKey(row, key)
    THEN [k \in 1..Len(row) |->
            IF row[k].key = key THEN [key |-> key, value |-> value] ELSE row[k]]
    ELSE LET at == Cardinality({k \in 1..Len(row) : ~EnumeratedBefore(key, row[k])})
         IN  SubSeq(row, 1, at) \o <<[key |-> key, value |-> value]>>
               \o SubSeq(row, at + 1, Len(row))

\* Lines 56-64: the object built from the first k headers and values.
RECURSIVE BuildRow(_, _, _)
BuildRow(hs, values, k) ==
  IF k = 0 THEN <<>>
  ELSE SetField(BuildRow(hs, values, k - 1), hs[k], Unquote(values[k]))

\* result.unshift(row)
UnshiftRow(res, row) == <<row>> \o res

\* Line 66: result.push(row)
PushRow(res, row) == Append(res, row)

\* Line 15: the header fields of line 0.
ParseHeaders(lns) ==
  LET fields == SplitOn(lns[1], Comma)
  IN  [k \in 1..Len(fields) |-> Trim(fields[k])]

\* A line test that skips nothing.
NeverEmptyLine(line) == FALSE

\* Line 26: !line
IsEmptyLine(line) == line = <<>>

\* A field-count test that rejects only the lines with too few fields.
IsTooShort(values, hs) == Len(values) < Len(hs)

\* Line 50: values.length !== headers.length
IsMalformed(values, hs) == Len(values) # Len(hs)

\* Lines 25-66: the body of the line loop for the raw line.
ParseLineStep(res, hs, raw) ==
  LET line   == Trim(raw)
      values == SplitFields(line)
  IN  IF IsEmptyLine(line) THEN res
      ELSE IF IsMalformed(values, hs) THEN res
      ELSE PushRow(res, BuildRow(hs, values, Len(hs)))

RECURSIVE ParseLines(_, _, _, _)
ParseLines(res, hs, lns, i) ==
  IF i >= Len(lns) THEN res
  ELSE ParseLines(ParseLineStep(res, hs, lns[i + 1]), hs, lns, i + 1)

\* The whole parseCSV call, as a function of its argument.
parseCSV(t) ==
  LET lns == SplitOn(Normalize(t), NL)
  IN  IF Len(lns) < 2 THEN <<>>
      ELSE ParseLines(<<>>, ParseHeaders(lns), lns, 1)

\* Object.keys(row)
Keys(row) == [k \in 1..Len(row) |-> row[k].key]

\* Line 86: row[header] !== undefined ? row[header] : ''
FieldOrEmpty(row, key) ==
  IF HasKey(row, key)
    THEN (CHOOSE f \in {row[k] : k \in 1..Len(row)} : f.key = key).value
    ELSE <<>>

Includes(t, ch) == \E k \in 1..Len(t) : t[k] = ch

\* value.replace(/"/g, '""')
RECURSIVE DoubleQuotes(_)
DoubleQuotes(t) ==
  IF t = <<>> THEN <<>>
  ELSE (IF t[1] = Quote THEN <<Quote, Quote>> ELSE <<t[1]>>) \o DoubleQuotes(Tail(t))

\* EscapeField that does not look for a newline.
EscapeFieldNoNewline(value) ==
  IF Includes(value, Comma) \/ Includes(value, Quote)
    THEN <<Quote>> \o DoubleQuotes(value) \o <<Quote>>
    ELSE value

\* Lines 88-90: escape quotes and wrap in quotes if needed.
EscapeField(value) ==
  IF Includes(value, Comma) \/ Includes(value, Quote) \/ Includes(value, NL)
    THEN <<Quote>> \o DoubleQuotes(value) \o <<Quote>>
    ELSE value

\* parts.join(sep)
RECURSIVE Join(_, _)
Join(parts, sep) ==
  IF parts = <<>> THEN <<>>
  ELSE IF Len(parts) = 1 THEN parts[1]
  ELSE parts[1] \o <<sep>> \o Join(Tail(parts), sep)

\* Line 78: headers || Object.keys(data[0])
csvHeaders(d, h) == IF h.given THEN h.names ELSE Keys(d[1])

\* Lines 85-91: the emitted fields of one row.
RowValuesOf(row, hs) == [k \in 1..Len(hs) |-> EscapeField(FieldOrEmpty(row, hs[k]))]

RECURSIVE WriteRows(_, _, _, _)
WriteRows(out, d, hs, i) ==
  IF i >= Len(d) THEN out
  ELSE WriteRows(out \o Join(RowValuesOf(d[i + 1], hs), Comma) \o <<NL>>, d, hs, i + 1)

\* The whole objectsToCSV call, as a function of its arguments.
objectsToCSV(d, h) ==
  IF Len(d) = 0 THEN <<>>
  ELSE WriteRows(Join(csvHeaders(d, h), Comma) \o <<NL>>, d, csvHeaders(d, h), 0)

\* The allocator is not running.
SplitIdle ==
  /\ data = <<>>
  /\ configs = <<>>
  /\ result = EmptyResult
  /\ startIndex = 0
  /\ configsWithoutSplitSizeCount = 0
  /\ recordsForThisSplit = 0
  /\ remainingData = <<>>
  /\ TpIdle

splitVars == <<data, configs, result, startIndex, configsWithoutSplitSizeCount,
               recordsForThisSplit, remainingData, tpVars>>

\* Either a text about to be parsed, or rows about to be written and then
\* read back.
InitCsv ==
  /\ SplitIdle
  /\ FormIdle
  /\ index = 0
  /\ rowValues = <<>>
  /\ lines = <<>>
  /\ headers = <<>>
  /\ parsed = <<>>
  /\ \/ /\ origin = "text"
        /\ pc = "text"
        /\ csvString \in Texts
        /\ objs = <<>>
        /\ hdrArg = [given |-> FALSE, names |-> <<>>]
     \/ /\ origin = "rows"
        /\ pc = "rows"
        /\ csvString = <<>>
        /\ \E hs \in HeaderLists :
              /\ objs \in ObjLists(hs)
              /\ hdrArg \in HeaderArgs(hs)

\* Line 75: no rows, the empty string.
ToCsvEmpty ==
  /\ pc = "rows"
  /\ Len(objs) = 0
  /\ csvString' = <<>>
  /\ pc' = "text"
  /\ UNCHANGED <<formVars, splitVars, index, origin, objs, hdrArg, rowValues,
                 lines, headers, parsed>>

\* Lines 78-81: the header row.
ToCsvHeader ==
  /\ pc = "rows"
  /\ Len(objs) # 0
  /\ csvString' = Join(csvHeaders(objs, hdrArg), Comma) \o <<NL>>
  /\ index' = 0
  /\ pc' = "write"
  /\ UNCHANGED <<formVars, splitVars, origin, objs, hdrArg, rowValues, lines, headers, parsed>>

\* Lines 84-93: one data row.
ToCsvRow ==
  /\ pc = "write"
  /\ index < Len(objs)
  /\ rowValues' = RowValuesOf(objs[index + 1], csvHeaders(objs, hdrArg))
  /\ csvString' = csvString \o Join(rowValues', Comma) \o <<NL>>
  /\ index' = index + 1
  /\ UNCHANGED <<formVars, splitVars, pc, origin, objs, hdrArg, lines, headers, parsed>>

\* Line 95: return the text; it is then read back.
ToCsvReturn ==
  /\ pc = "write"
  /\ index = Len(objs)
  /\ pc' = "text"
  /\ UNCHANGED <<formVars, splitVars, index, csvVars>>

\* Lines 9-12: fewer than two lines, no rows.
ParseTooShort ==
  /\ pc = "text"
  /\ Len(SplitOn(Normalize(csvString), NL)) < 2
  /\ lines' = SplitOn(Normalize(csvString), NL)
  /\ parsed' = <<>>
  /\ pc' = "done"
  /\ UNCHANGED <<formVars, splitVars, index, origin, objs, hdrArg, rowValues, csvString, headers>>

\* Lines 9-21: split into lines and read the header.
ParseHeader ==
  /\ pc = "text"
  /\ Len(SplitOn(Normalize(csvString), NL)) >= 2
  /\ lines' = SplitOn(Normalize(csvString), NL)
  /\ headers' = ParseHeaders(lines')
  /\ parsed' = <<>>
  /\ index' = 1
  /\ pc' = "parse"
  /\ UNCHANGED <<formVars, splitVars, origin, objs, hdrArg, rowValues, csvString>>

\* Lines 24-67: one iteration of the line loop.
ParseLine ==
  /\ pc = "parse"
  /\ index < Len(lines)
  /\ parsed' = ParseLineStep(parsed, headers, lines[index + 1])
  /\ index' = index + 1
  /\ UNCHANGED <<formVars, splitVars, pc, origin, objs, hdrArg, rowValues, csvString,
                 lines, headers>>

\* Lines 69-70: return the rows.
ParseReturn ==
  /\ pc = "parse"
  /\ index = Len(lines)
  /\ pc' = "done"
  /\ UNCHANGED <<formVars, splitVars, index, csvVars>>

NextCsv ==
  \/ ToCsvEmpty \/ ToCsvHeader \/ ToCsvRow \/ ToCsvReturn
  \/ ParseTooShort \/ ParseHeader \/ ParseLine \/ ParseReturn

SpecCsv == InitCsv /\ [][NextCsv]_vars

(***************************************************************************)
(* The page of src/unnamed/part_007: SplitterForm (lines 22-367) and Index *)
(* (lines 369-444).  A handler runs to its end, or to its await, in one    *)
(* step; the part of handleFileSelected and of handleFileLoaded after      *)
(* `await file.text()` is a step of its own, taken when the read settles.  *)
(* Reads of different calls settle in any order.                           *)
(***************************************************************************)
MaxFormRows == 3

MaxReads == 2

\* The files the user can pick, and what file.text() resolves to.
\* A holds two rows, B a header line only.
FileNames == {"A", "B"}

\* The file in the form when a filled-in form is submitted; it holds three
\* rows.
SubmitFile == "C"

TextOf(f) ==
  IF f = "A" THEN <<"h", NL, "1", NL, "2">>
  ELSE IF f = "B" THEN <<"h", NL>>
  ELSE <<"h", NL, "1", NL, "2", NL, "3">>

\* What the user can type into the three inputs of a config row.
AccountInputs == {<<>>, <<"A">>}

SentInputs == {<<>>, <<"s">>}

SizeInputs == {<<>>, <<"1">>}

\* Lines 25-28 and 85-88: a blank config row.
BlankConfig == [accountName |-> <<>>, sentType |-> <<>>, splitSize |-> <<>>]

\* The characters as one string.
RECURSIVE Str(_)
Str(cs) == IF cs = <<>> THEN "" ELSE Head(cs) \o Str(Tail(cs))

\* A parsed row as the allocator's function from column names to strings.
AsRecord(row) ==
  [c \in {Str(row[k].key) : k \in 1..Len(row)} |->
     Str(row[CHOOSE k \in 1..Len(row) : Str(row[k].key) = c].value)]

AsRecords(d) == [i \in 1..Len(d) |-> AsRecord(d[i])]

\* The decimal numeral of a natural number.
RECURSIVE DecimalOf(_)
DecimalOf(n) ==
  IF n < 10 THEN <<Digits[n + 1]>>
  ELSE DecimalOf(n \div 10) \o <<Digits[(n % 10) + 1]>>

\* The text without a leading sign.
Unsigned(cs) == IF cs # <<>> /\ Head(cs) \in {"-", "+"} THEN Tail(cs) ELSE cs

\* The longest prefix of decimal digits.
RECURSIVE DigitPrefix(_)
DigitPrefix(cs) ==
  IF cs # <<>> /\ IsDigit(Head(cs)) THEN <<Head(cs)>> \o DigitPrefix(Tail(cs))
  ELSE <<>>

\* parseInt(cs) is a number, not NaN.  (No text of the model starts with the
\* hexadecimal prefix 0x.)
HasIntPrefix(cs) == DigitPrefix(Unsigned(TrimStart(cs))) # <<>>

\* parseInt(cs), when it is a number.
ParseInt(cs) ==
  LET t == TrimStart(cs)
      n == IndexValue(DigitPrefix(Unsigned(t)))
  IN  IF t # <<>> /\ Head(t) = "-" THEN 0 - n ELSE n

\* isNaN(Number(cs)) for a trimmed, non-empty text over digits, signs and
\* letters: Number accepts a decimal numeral with an optional sign.
NumberIsNaN(cs) ==
  ~(Unsigned(cs) # <<>> /\ \A k \in 1..Len(Unsigned(cs)) : IsDigit(Unsigned(cs)[k]))

\* Lines 136-138, 171-172: the rows with an account name and a sent type.
IsValidConfig(c) == Trim(c.accountName) # <<>> /\ Trim(c.sentType) # <<>>

validConfigRows(cfgs) == SelectSeq(cfgs, IsValidConfig)

\* Lines 131-162.
validateInputs ==
  /\ file # "none"
  /\ Len(validConfigRows(splitConfigs)) # 0
  /\ \A k \in 1..Len(validConfigRows(splitConfigs)) :
        LET size == Trim(validConfigRows(splitConfigs)[k].splitSize)
        IN  size = <<>> \/ ~NumberIsNaN(size)

\* Lines 173-177: the config handed to splitData.
ToConfig(c) ==
  [accountName |-> Str(Trim(c.accountName)),
   sentType    |-> Str(Trim(c.sentType)),
   splitSize   |-> IF Trim(c.splitSize) # <<>> THEN ParseInt(Trim(c.splitSize)) ELSE 0]

validConfigs(cfgs) ==
  [k \in 1..Len(validConfigRows(cfgs)) |-> ToConfig(validConfigRows(cfgs)[k])]

\* part_006, lines 22-66: one forEach iteration on the state
\* [result, remainingData].
IdxForEachBody(st, cfgs, i) ==
  LET n == recordsToAllocate(st.remainingData, cfgs, i)
  IN  IF n > 0
        THEN [result |-> Put(st.result, IdxKey(cfgs[i + 1], i),
                             TakeTagged(st.remainingData, n,
                                        cfgs[i + 1].accountName, cfgs[i + 1].sentType)),
              remainingData |-> SliceFrom(st.remainingData, n)]
        ELSE st

RECURSIVE IdxRunLoop(_, _, _)
IdxRunLoop(st, cfgs, i) ==
  IF i >= Len(cfgs) THEN st
  ELSE IdxRunLoop(IdxForEachBody(st, cfgs, i), cfgs, i + 1)

\* part_006, lines 4-77: the whole splitData call the form makes.
splitDataIdx(d, cfgs) ==
  IF Len(d) = 0 \/ Len(cfgs) = 0 THEN EmptyResult
  ELSE IdxRunLoop([result |-> EmptyResult, remainingData |-> CopyOf(d)], cfgs, 0).result

\* The characters of the key splitData gives the group of config i.
KeyChars(c, i) ==
  Trim(c.accountName) \o <<"_">> \o Trim(c.sentType) \o <<"_">> \o DecimalOf(i)

\* Lines 194-207: the body of the forEach over Object.keys(result).
DisplayStep(acc, res, key) ==
  LET keyParts    == SplitOn(key, "_")
      Part(k)     == IF k <= Len(keyParts) THEN Str(keyParts[k]) ELSE "undefined"
      originalKey == Part(1) \o "_" \o Part(2)
      plusOne     == IF Len(keyParts) >= 3 /\ HasIntPrefix(keyParts[3])
                       THEN ToString(ParseInt(keyParts[3]) + 1)
                       ELSE "NaN"
      displayKey  == IF originalKey \in DOMAIN acc
                       THEN originalKey \o "_" \o plusOne
                       ELSE originalKey
  IN  Put(acc, displayKey, res[Str(key)])

\* Lines 192-207: displayResult; the keys of result are visited in the order
\* they were created, which is the order of the configs.
RECURSIVE DisplayResult(_, _, _, _)
DisplayResult(acc, res, rows, i) ==
  IF i >= Len(rows) THEN acc
  ELSE IF Str(KeyChars(rows[i + 1], i)) \in DOMAIN res
    THEN DisplayResult(DisplayStep(acc, res, KeyChars(rows[i + 1], i)), res, rows, i + 1)
  ELSE DisplayResult(acc, res, rows, i + 1)

\* The number of file reads that have not settled.
RECURSIVE SumOver(_, _)
SumOver(f, S) ==
  IF S = {} THEN 0
  ELSE LET x == CHOOSE x \in S : TRUE IN f[x] + SumOver(f, S \ {x})

Pending == SumOver(reading, FileNames) + SumOver(loading, FileNames)

\* Everything but the page.
nonFormVars == <<data, configs, pc, result, index, startIndex,
                 configsWithoutSplitSizeCount, recordsForThisSplit,
                 remainingData, tpVars, csvVars>>

\* The page as mounted: lines 24-33 and 376.
InitForm ==
  /\ SplitIdle
  /\ CsvIdle
  /\ pc = "form"
  /\ index = 0
  /\ file = "none"
  /\ splitConfigs = <<BlankConfig, BlankConfig>>
  /\ csvData = <<>>
  /\ formHeaders = <<>>
  /\ processedData = EmptyResult
  /\ hasProcessed = FALSE
  /\ reading = [f \in FileNames |-> 0]
  /\ originalData = <<>>
  /\ loading = [f \in FileNames |-> 0]

\* Lines 35-41: handleFileSelected up to the await.
SelectFile(f) ==
  /\ pc = "form"
  /\ Pending < MaxReads
  /\ file' = f
  /\ hasProcessed' = FALSE
  /\ reading' = [reading EXCEPT ![f] = @ + 1]
  /\ UNCHANGED <<nonFormVars, splitConfigs, csvData, formHeaders, processedData,
                 originalData, loading>>

\* Lines 41-63 and 378-380: the read of f settled with its text; the form
\* stores the rows and calls onFileLoaded, which starts the read of Index.
ReadDone(f) ==
  /\ pc = "form"
  /\ reading[f] > 0
  /\ reading' = [reading EXCEPT ![f] = @ - 1]
  /\ csvData' = parseCSV(TextOf(f))
  /\ formHeaders' = IF Len(csvData') > 0 THEN Keys(csvData'[1]) ELSE formHeaders
  /\ loading' = [loading EXCEPT ![f] = @ + 1]
  /\ UNCHANGED <<nonFormVars, file, splitConfigs, processedData, hasProcessed,
                 originalData>>

\* Lines 64-71: the read of f was rejected; the catch only shows a toast.
ReadFailed(f) ==
  /\ pc = "form"
  /\ reading[f] > 0
  /\ reading' = [reading EXCEPT ![f] = @ - 1]
  /\ UNCHANGED <<nonFormVars, file, splitConfigs, csvData, formHeaders,
                 processedData, hasProcessed, originalData, loading>>

\* Lines 381-392: the read of Index settled with the text of f.
LoadDone(f) ==
  /\ pc = "form"
  /\ loading[f] > 0
  /\ loading' = [loading EXCEPT ![f] = @ - 1]
  /\ originalData' = parseCSV(TextOf(f))
  /\ UNCHANGED <<nonFormVars, file, splitConfigs, csvData, formHeaders,
                 processedData, hasProcessed, reading>>

\* Lines 393-396: the read of Index was rejected.
LoadFailed(f) ==
  /\ pc = "form"
  /\ loading[f] > 0
  /\ loading' = [loading EXCEPT ![f] = @ - 1]
  /\ originalData' = <<>>
  /\ UNCHANGED <<nonFormVars, file, splitConfigs, csvData, formHeaders,
                 processedData, hasProcessed, reading>>

\* Lines 74-80; the button is rendered while a file is selected.
ClearFile ==
  /\ pc = "form"
  /\ file # "none"
  /\ file' = "none"
  /\ csvData' = <<>>
  /\ formHeaders' = <<>>
  /\ hasProcessed' = FALSE
  /\ processedData' = EmptyResult
  /\ UNCHANGED <<nonFormVars, splitConfigs, reading, originalData, loading>>

\* Lines 82-98 and 399-402: handleReset with the onReset of Index.
Reset ==
  /\ pc = "form"
  /\ file' = "none"
  /\ csvData' = <<>>
  /\ formHeaders' = <<>>
  /\ hasProcessed' = FALSE
  /\ processedData' = EmptyResult
  /\ splitConfigs' = <<BlankConfig, BlankConfig>>
  /\ originalData' = <<>>
  /\ UNCHANGED <<nonFormVars, reading, loading>>

\* Lines 100-104.
AccountNameChange(i, value) ==
  /\ pc = "form"
  /\ i \in 1..Len(splitConfigs)
  /\ splitConfigs' = [splitConfigs EXCEPT ![i].accountName = value]
  /\ UNCHANGED <<nonFormVars, file, csvData, formHeaders, processedData,
                 hasProcessed, reading, originalData, loading>>

\* Lines 106-110.
SentTypeChange(i, value) ==
  /\ pc = "form"
  /\ i \in 1..Len(splitConfigs)
  /\ splitConfigs' = [splitConfigs EXCEPT ![i].sentType = value]
  /\ UNCHANGED <<nonFormVars, file, csvData, formHeaders, processedData,
                 hasProcessed, reading, originalData, loading>>

\* Lines 112-116.
SplitSizeChange(i, value) ==
  /\ pc = "form"
  /\ i \in 1..Len(splitConfigs)
  /\ splitConfigs' = [splitConfigs EXCEPT ![i].splitSize = value]
  /\ UNCHANGED <<nonFormVars, file, csvData, formHeaders, processedData,
                 hasProcessed, reading, originalData, loading>>

\* Lines 118-123.
AddRow ==
  /\ pc = "form"
  /\ Len(splitConfigs) < MaxFormRows
  /\ splitConfigs' = Append(splitConfigs, BlankConfig)
  /\ UNCHANGED <<nonFormVars, file, csvData, formHeaders, processedData,
                 hasProcessed, reading, originalData, loading>>

\* A test that lets a two-row form lose a row.
BelowMinimumRows(cfgs) == Len(cfgs) < 2

\* Line 126: splitConfigs.length <= 2
AtMinimumRows(cfgs) == Len(cfgs) <= 2

\* Lines 125-129: handleRemoveRow returns early on a form at its minimum,
\* and otherwise filters row i out.
RemoveRow(i) ==
  /\ pc = "form"
  /\ i \in 1..Len(splitConfigs)
  /\ splitConfigs' =
       IF AtMinimumRows(splitConfigs) THEN splitConfigs
       ELSE [k \in 1..(Len(splitConfigs) - 1) |->
               IF k < i THEN splitConfigs[k] ELSE splitConfigs[k + 1]]
  /\ UNCHANGED <<nonFormVars, file, csvData, formHeaders, processedData,
                 hasProcessed, reading, originalData, loading>>

\* Lines 164-229; the button is disabled while no file is selected.
Process ==
  /\ pc = "form"
  /\ file # "none"
  /\ IF ~validateInputs
       THEN UNCHANGED <<processedData, hasProcessed>>
       ELSE LET res == splitDataIdx(AsRecords(csvData), validConfigs(splitConfigs))
            IN  IF DOMAIN res = {}
                  THEN /\ processedData' = EmptyResult
                       /\ UNCHANGED hasProcessed
                  ELSE /\ processedData' = DisplayResult(EmptyResult, res,
                                              validConfigRows(splitConfigs), 0)
                       /\ hasProcessed' = TRUE
  /\ UNCHANGED <<nonFormVars, file, splitConfigs, csvData, formHeaders, reading,
                 originalData, loading>>

NextForm ==
  \/ \E f \in FileNames : SelectFile(f)
  \/ \E f \in FileNames : ReadDone(f)
  \/ \E f \in FileNames : ReadFailed(f)
  \/ \E f \in FileNames : LoadDone(f)
  \/ \E f \in FileNames : LoadFailed(f)
  \/ ClearFile
  \/ Reset
  \/ \E i \in 1..MaxFormRows, v \in AccountInputs : AccountNameChange(i, v)
  \/ \E i \in 1..MaxFormRows, v \in SentInputs : SentTypeChange(i, v)
  \/ \E i \in 1..MaxFormRows, v \in SizeInputs : SplitSizeChange(i, v)
  \/ AddRow
  \/ \E i \in 1..MaxFormRows : RemoveRow(i)
  \/ Process

SpecForm == InitForm /\ [][NextForm]_vars

\* The page when every read settles with the file's text: selections and
\* the completions of the reads of SplitterForm and Index, in any order,
\* with edits of the two config rows and clicks on 'Process CSV' in between.
NextSelect ==
  \/ \E f \in FileNames : SelectFile(f)
  \/ \E f \in FileNames : ReadDone(f)
  \/ \E f \in FileNames : LoadDone(f)
  \/ \E i \in 1..MaxFormRows, v \in AccountInputs : AccountNameChange(i, v)
  \/ \E i \in 1..MaxFormRows, v \in SentInputs : SentTypeChange(i, v)
  \/ \E i \in 1..MaxFormRows, v \in SizeInputs : SplitSizeChange(i, v)
  \/ Process

SpecSelect == InitForm /\ [][NextSelect]_vars

\* The config rows of the form alone: lines 82-129.
NextRows ==
  \/ \E i \in 1..MaxFormRows, v \in AccountInputs : AccountNameChange(i, v)
  \/ \E i \in 1..MaxFormRows, v \in SentInputs : SentTypeChange(i, v)
  \/ \E i \in 1..MaxFormRows, v \in SizeInputs : SplitSizeChange(i, v)
  \/ AddRow
  \/ \E i \in 1..MaxFormRows : RemoveRow(i)
  \/ Reset

SpecRows == InitForm /\ [][NextRows]_vars

(***************************************************************************)
(* The submission of a filled-in form: handleProcess of part_007 (lines    *)
(* 164-229) as a function of the text fields.  The form holds a loaded     *)
(* file and any content of its config rows; the one step is the click on   *)
(* 'Process CSV'.  The texts are over letters, digits, '-', '_' and ' '.   *)
(***************************************************************************)
MaxSubmitRows == 3

AccountTexts == {<<>>, <<" ">>, <<"A">>, <<"A", "_", "B">>}

SentTexts == {<<>>, <<"s">>, <<"s", "_", "1">>}

SizeTexts == {<<>>, <<"1">>, <<"-", "1">>, <<"x">>}

SubmitRows ==
  [accountName : AccountTexts, sentType : SentTexts, splitSize : SizeTexts]

\* Lines 125-126 keep two rows at least.
SubmitConfigLists == UNION { [1..n -> SubmitRows] : n \in 2..MaxSubmitRows }

\* The form after SubmitFile was selected and both reads settled, with any
\* content typed into the config rows.
InitSubmit ==
  /\ SplitIdle
  /\ CsvIdle
  /\ pc = "form"
  /\ index = 0
  /\ file = SubmitFile
  /\ splitConfigs \in SubmitConfigLists
  /\ csvData = parseCSV(TextOf(SubmitFile))
  /\ formHeaders = Keys(csvData[1])
  /\ processedData = EmptyResult
  /\ hasProcessed = FALSE
  /\ reading = [f \in FileNames |-> 0]
  /\ originalData = parseCSV(TextOf(SubmitFile))
  /\ loading = [f \in FileNames |-> 0]

NextSubmit == Process

SpecSubmit == InitSubmit /\ [][NextSubmit]_vars

(***************************************************************************)
(* Vocabulary of the properties.                                           *)
(***************************************************************************)
Done == pc = "done"

NumRows == Len(data)

NumConfigs == Len(configs)

DistinctKeys ==
  \A i, j \in 1..NumConfigs : i # j => Key(configs[i]) # Key(configs[j])

NonNegativeQuotas == \A k \in 1..NumConfigs : configs[k].splitSize >= 0

AllPositive == \A k \in 1..NumConfigs : configs[k].splitSize > 0

AllZero == \A k \in 1..NumConfigs : configs[k].splitSize = 0

SomeZero == \E k \in 1..NumConfigs : configs[k].splitSize = 0

Total == totalSpecifiedRecords(configs)

ConfigKeys == { Key(configs[k]) : k \in 1..NumConfigs }

\* Every (group, position) of the result.
Slots == UNION { { <<k, p>> : p \in 1..Len(result[k]) } : k \in DOMAIN result }

EntryAt(s) == result[s[1]][s[2]]

InputIndexes == 0..(NumRows - 1)

\* The group of the k-th config, empty when the result has no such key.
GroupOf(k) ==
  IF Key(configs[k]) \in DOMAIN result THEN result[Key(configs[k])] ELSE <<>>

\* The rows before the k-th config when every config takes its quota.
Offset(k) == SumSpecified(configs, k - 1)

Reserved == {"account", "sent"}

\* e is input row i with the two reserved columns set to acct and snt and
\* every other column as in the input.
IsTaggedCopy(e, i, acct, snt) ==
  /\ e.src = i
  /\ i \in InputIndexes
  /\ DOMAIN e.row = DOMAIN data[i + 1] \cup Reserved
  /\ e.row["account"] = acct
  /\ e.row["sent"] = snt
  /\ \A c \in DOMAIN data[i + 1] \ Reserved : e.row[c] = data[i + 1][c]

\* g is the input rows lo .. lo+n-1 (0-based), in order, tagged acct / snt.
IsSlice(g, lo, n, acct, snt) ==
  /\ Len(g) = n
  /\ \A p \in 1..Len(g) : IsTaggedCopy(g[p], lo + p - 1, acct, snt)

\* The group of the k-th config is the slice it owns when every quota is met.
HasQuotaSlice(k) ==
  IsSlice(GroupOf(k), Offset(k), configs[k].splitSize,
          configs[k].accountName, configs[k].sentType)

LastConfig == configs[NumConfigs]

TypeOK ==
  /\ pc \in {"entry", "loop", "done"}
  /\ index \in 0..Len(configs)
  /\ startIndex \in Int

(***************************************************************************)
(* C1.  For a non-empty row list and a non-empty config list with pairwise *)
(* distinct keys and quotas >= 0, the groups returned by splitData         *)
(* partition the input: the group sizes sum to the number of rows, every   *)
(* input position occurs in exactly one group, and every entry comes from  *)
(* an input position.                                                      *)
(***************************************************************************)
C1_Partition ==
  (Done /\ NumRows > 0 /\ NumConfigs > 0 /\ DistinctKeys /\ NonNegativeQuotas)
    => /\ Cardinality(Slots) = NumRows
       /\ \A i \in InputIndexes :
            Cardinality({s \in Slots : EntryAt(s).src = i}) = 1
       /\ \A s \in Slots : EntryAt(s).src \in InputIndexes

(***************************************************************************)
(* C2.  With at least one quota 0, no negative quota and positive quotas   *)
(* that sum to at most the number of rows, every config with a positive    *)
(* quota gets exactly its quota and the quota-0 configs together get the   *)
(* rows left over.                                                         *)
(***************************************************************************)
C2_QuotasHonouredAmongUnspecified ==
  (Done /\ NumRows > 0 /\ DistinctKeys /\ NonNegativeQuotas /\ SomeZero
        /\ Total <= NumRows)
    => /\ \A k \in 1..NumConfigs :
            configs[k].splitSize > 0 => Len(GroupOf(k)) = configs[k].splitSize
       /\ Cardinality({s \in Slots :
              \E k \in 1..NumConfigs :
                 configs[k].splitSize = 0 /\ s[1] = Key(configs[k])})
            = NumRows - Total

(***************************************************************************)
(* C3.  With only positive quotas that sum to less than the number of      *)
(* rows, each config gets exactly its quota in config order and the        *)
(* leftover rows form exactly one additional group, keyed                  *)
(* <last accountName>_<last sentType>_remainder, whose rows carry the last *)
(* config's accountName and the sent value <last sentType>_remainder.      *)
(***************************************************************************)
C3_UnderQuotaRemainder ==
  (Done /\ NumRows > 0 /\ NumConfigs > 0 /\ DistinctKeys /\ AllPositive
        /\ Total < NumRows)
    => /\ \A k \in 1..NumConfigs : HasQuotaSlice(k)
       /\ DOMAIN result = ConfigKeys \cup {RemainderKey(LastConfig)}
       /\ Cardinality(DOMAIN result) = NumConfigs + 1
       /\ IsSlice(result[RemainderKey(LastConfig)], Total, NumRows - Total,
                  LastConfig.accountName, RemainderSent(LastConfig))

(***************************************************************************)
(* C4.  In the index-keyed splitData, with only positive quotas that sum   *)
(* to less than the number of rows, the rows left after the last config    *)
(* are placed in a remainder group, so no input row is missing from the    *)
(* result.                                                                 *)
(***************************************************************************)
C4_IdxRemainderGroup ==
  (Done /\ NumRows > 0 /\ NumConfigs > 0 /\ AllPositive /\ Total < NumRows)
    => /\ Cardinality(DOMAIN result) = NumConfigs + 1
       /\ \A i \in InputIndexes : \E s \in Slots : EntryAt(s).src = i

(***************************************************************************)
(* C5 as stated.  With only positive quotas that sum to exactly the number *)
(* of rows, group i is the contiguous slice that starts where group i-1    *)
(* ended and has quota_i rows, and the result has exactly one key per      *)
(* config and no further (remainder) key.                                  *)
(***************************************************************************)
C5_ExactQuotaSlices_AsStated ==
  (Done /\ NumRows > 0 /\ NumConfigs > 0 /\ AllPositive /\ Total = NumRows)
    => /\ \A k \in 1..NumConfigs : HasQuotaSlice(k)
       /\ DOMAIN result = ConfigKeys
       /\ Cardinality(DOMAIN result) = NumConfigs

(***************************************************************************)
(* C5 amended.  The same, for config lists whose accountName_sentType keys *)
(* are pairwise distinct.                                                  *)
(***************************************************************************)
C5_ExactQuotaSlices ==
  (Done /\ NumRows > 0 /\ NumConfigs > 0 /\ AllPositive /\ Total = NumRows
        /\ DistinctKeys)
    => /\ \A k \in 1..NumConfigs : HasQuotaSlice(k)
       /\ DOMAIN result = ConfigKeys
       /\ Cardinality(DOMAIN result) = NumConfigs

\* Three distinct configs whose quotas sum to the number of rows, returned.
C5_Witness ==
  /\ Done /\ NumConfigs = 3 /\ AllPositive /\ Total = NumRows /\ DistinctKeys
  /\ \A k \in 1..NumConfigs : Len(GroupOf(k)) = configs[k].splitSize
  /\ GroupOf(3)[1].src = Offset(3)

\* The share of config k when k..NumConfigs split r rows by the ceiling rule.
CeilShare(r, k) == Ceil(r, NumConfigs - k + 1)

RECURSIVE HandedBefore(_)
HandedBefore(k) ==
  IF k = 1 THEN 0
  ELSE HandedBefore(k - 1) + CeilShare(NumRows - HandedBefore(k - 1), k - 1)

(***************************************************************************)
(* C6.  With k >= 1 configs that all have quota 0 over n >= 1 rows, config *)
(* i gets ceil(r_i / (k - i + 1)) rows, r_i being the rows not yet handed  *)
(* to the configs before i, the last config gets all rows still left, and  *)
(* no remainder group is created.                                          *)
(***************************************************************************)
C6_EvenSplit ==
  (Done /\ NumRows > 0 /\ NumConfigs > 0 /\ AllZero /\ DistinctKeys)
    => /\ \A k \in 1..NumConfigs :
            Len(GroupOf(k)) = CeilShare(NumRows - HandedBefore(k), k)
       /\ DOMAIN result = ConfigKeys

\* The groups of configs 1..k, one after the other.
RECURSIVE ConcatGroups(_)
ConcatGroups(k) == IF k = 0 THEN <<>> ELSE ConcatGroups(k - 1) \o GroupOf(k)

\* The remainder group, when the result has one besides the configs' groups.
RemainderGroup ==
  IF NumConfigs > 0 /\ RemainderKey(LastConfig) \in DOMAIN result \ ConfigKeys
    THEN result[RemainderKey(LastConfig)]
    ELSE <<>>

(***************************************************************************)
(* C7.  For quotas >= 0 and distinct keys, configs are served in order     *)
(* from the front of the unallocated rows: the groups in config order,     *)
(* followed by the remainder group, are the input positions 0, 1, ...,     *)
(* n-1 in order (so each group is a contiguous slice and group i precedes  *)
(* group j for i < j).                                                     *)
(***************************************************************************)
C7_OrderedContiguous ==
  (Done /\ NumRows > 0 /\ NumConfigs > 0 /\ DistinctKeys /\ NonNegativeQuotas)
    => LET all == ConcatGroups(NumConfigs) \o RemainderGroup
       IN  /\ Len(all) = NumRows
           /\ \A p \in 1..Len(all) : all[p].src = p - 1

(***************************************************************************)
(* C8 as stated.  For any document, the empty one included, and any config *)
(* list, the result has a key for every declared config.                   *)
(***************************************************************************)
C8_DeclaredKeys_AsStated ==
  Done => \A k \in 1..NumConfigs : Key(configs[k]) \in DOMAIN result

(***************************************************************************)
(* C8 amended.  For a non-empty document and any config list the result    *)
(* has a key for every declared config, mapping to a possibly empty list;  *)
(* for the empty document the result is the empty map.                     *)
(***************************************************************************)
C8_DeclaredKeys ==
  Done => IF NumRows = 0
            THEN result = EmptyResult
            ELSE \A k \in 1..NumConfigs : Key(configs[k]) \in DOMAIN result

\* A returned result in which a declared config maps to the empty list.
C8_Witness ==
  /\ Done /\ NumRows > 0 /\ NumConfigs > 1
  /\ \E k \in 1..NumConfigs :
        Key(configs[k]) \in DOMAIN result /\ result[Key(configs[k])] = <<>>

\* The config list with every negative quota replaced by 0.
NegativesAsZero ==
  [k \in 1..NumConfigs |->
     IF configs[k].splitSize < 0
       THEN [configs[k] EXCEPT !.splitSize = 0]
       ELSE configs[k]]

(***************************************************************************)
(* C9.  A negative splitSize is treated exactly like splitSize 0: the      *)
(* result for a config list with negative quotas is the result for the     *)
(* same list with quota 0 in their place.                                  *)
(***************************************************************************)
C9_NegativeLikeZero ==
  (Done /\ NumRows > 0 /\ DistinctKeys /\ ~NonNegativeQuotas) => result = splitData(data, NegativesAsZero)

\* Entry e of the group keyed key carries the tags of a config that owns
\* that key, or the remainder tags of a config whose remainder key it is.
OwnerTagged(key, e) ==
  \E k \in 1..NumConfigs :
     \/ /\ key = Key(configs[k])
        /\ IsTaggedCopy(e, e.src, configs[k].accountName, configs[k].sentType)
     \/ /\ key = RemainderKey(configs[k])
        /\ IsTaggedCopy(e, e.src, configs[k].accountName, RemainderSent(configs[k]))

(***************************************************************************)
(* C10.  Every output row agrees with the input row it was taken from on   *)
(* every column other than account and sent, has account and sent set to   *)
(* the owning config's accountName and sentType (sentType_remainder in a   *)
(* remainder group), and the input row list is left unchanged.             *)
(***************************************************************************)
C10_TaggedCopies ==
  /\ []((Done /\ DistinctKeys /\ NonNegativeQuotas)
         => \A s \in Slots : OwnerTagged(s[1], EntryAt(s)))
  /\ [][data' = data]_vars

(***************************************************************************)
(* Vocabulary of the codec properties.                                     *)
(***************************************************************************)
\* The rows the quoted-field example is specified to parse to.
QuotedExampleRows ==
  << << [key |-> <<"n", "a", "m", "e">>,
         value |-> <<"A", "l", "i", "c", "e">>],
        [key |-> <<"n", "o", "t", "e">>,
         value |-> <<"h", "e", "l", "l", "o", Comma, " ", "w", "o", "r", "l", "d">>] >>,
     << [key |-> <<"n", "a", "m", "e">>,
         value |-> <<"B", "o", "b">>],
        [key |-> <<"n", "o", "t", "e">>,
         value |-> <<"s", "h", "e", " ", "s", "a", "i", "d", " ", Quote, "h", "i", Quote>>] >> >>

\* The row the malformed-row example is specified to parse to.
MalformedExampleRows ==
  << << [key |-> <<"a">>,
         value |-> <<"1">>],
        [key |-> <<"b">>,
         value |-> <<"2">>] >> >>

\* The data lines read so far: lines 1 .. n-1 in the code's 0-based count.
DataLines(n) == SubSeq(lines, 2, n)

IsBlank(raw) == \A k \in 1..Len(raw) : raw[k] \in Whitespace

\* The number of fields the scan splits the line into.
FieldCount(raw) == Len(SplitFields(Trim(raw)))

\* A data line that is neither blank nor malformed.
IsKept(raw) == ~IsBlank(raw) /\ FieldCount(raw) = Len(headers)

(***************************************************************************)
(* C11.  A field wrapped in double quotes loses one layer of wrapping      *)
(* quotes and has every doubled quote inside turned into a single quote,   *)
(* and commas inside the quotes do not split the field: the quoted-field   *)
(* example parses to {name: Alice, note: 'hello, world'} and               *)
(* {name: Bob, note: 'she said "hi"'}.                                     *)
(***************************************************************************)
C11_QuotedFieldExample ==
  (Done /\ csvString = QuotedExample) => parsed = QuotedExampleRows

\* Rows that have every header of hs, in order, with values of plain text,
\* embedded commas, embedded quotes or embedded newlines.
RoundTripValues == { <<"a">>, <<"a", Comma, "a">>, <<"a", Quote>>, <<"a", NL, "a">> }

IsRoundTripInput ==
  /\ origin = "rows"
  /\ Len(objs) > 0
  /\ hdrArg.given
  /\ \A i \in 1..Len(objs) :
        /\ Keys(objs[i]) = hdrArg.names
        /\ \A k \in 1..Len(objs[i]) : objs[i][k].value \in RoundTripValues

(***************************************************************************)
(* C12.  For a non-empty list of rows over headers h whose values hold     *)
(* plain text, embedded commas, embedded double quotes or embedded         *)
(* newlines, parseCSV(objectsToCSV(rows, h)) is the same rows in the same  *)
(* order with the same field values.                                       *)
(***************************************************************************)
C12_RoundTrip ==
  (Done /\ IsRoundTripInput) => parsed = objs

(***************************************************************************)
(* C13.  A non-blank data line whose number of split fields differs from   *)
(* the number of header fields is dropped, and every other non-blank data  *)
(* line yields a row; the malformed-row example parses to exactly one row, *)
(* {a: 1, b: 2}.                                                           *)
(***************************************************************************)
C13_MalformedSkipped ==
  /\ (pc \in {"parse", "done"} /\ Len(lines) >= 2)
       => Len(parsed) = Cardinality({k \in 2..index : IsKept(lines[k])})
  /\ (Done /\ csvString = MalformedExample) => parsed = MalformedExampleRows

\* A returned parse that dropped a malformed line and kept another line.
C13_Witness ==
  /\ Done /\ origin = "text" /\ Len(lines) >= 2 /\ Len(parsed) >= 1
  /\ \E k \in 2..Len(lines) :
        ~IsBlank(lines[k]) /\ FieldCount(lines[k]) # Len(headers)

\* The row a kept line gives.
RowOfLine(raw) == BuildRow(headers, SplitFields(Trim(raw)), Len(headers))

(***************************************************************************)
(* C14.  parseCSV returns the rows in input line order: the result is the  *)
(* sequence of the rows of the well-formed, non-blank data lines, in the   *)
(* order of those lines, without the header line and the skipped lines,    *)
(* nothing reordered or duplicated.                                        *)
(***************************************************************************)
C14_LineOrder ==
  (pc \in {"parse", "done"} /\ Len(lines) >= 2)
    => LET kept == SelectSeq(DataLines(index), IsKept)
       IN  /\ Len(parsed) = Len(kept)
           /\ \A k \in 1..Len(kept) : parsed[k] = RowOfLine(kept[k])

\* Two different rows returned, with a skipped line among the data lines.
C14_Witness ==
  /\ Done /\ origin = "text" /\ Len(parsed) = 2 /\ parsed[1] # parsed[2]
  /\ Len(lines) > 3

\* The trimmed header fields of line 0 of the text.
HeaderFields ==
  LET fields == SplitOn(SplitOn(Normalize(csvString), NL)[1], Comma)
  IN  [k \in 1..Len(fields) |-> Trim(fields[k])]

\* The position at which a name first occurs among the header fields.
FirstAt(name) ==
  CHOOSE k \in 1..Len(HeaderFields) :
     HeaderFields[k] = name /\ \A j \in 1..(k - 1) : HeaderFields[j] # name

(***************************************************************************)
(* C15.  All rows returned by one parseCSV call have the same keys in the  *)
(* same order, namely the trimmed header fields of line 0 (each name once, *)
(* in the order of its first occurrence); no row has a key outside the     *)
(* header or lacks a header key.                                           *)
(***************************************************************************)
C15_UniformKeys ==
  Done =>
    \A i \in 1..Len(parsed) :
       LET ks == Keys(parsed[i])
       IN  /\ ks = Keys(parsed[1])
           /\ {ks[k] : k \in 1..Len(ks)}
                = {HeaderFields[k] : k \in 1..Len(HeaderFields)}
           /\ \A p, q \in 1..Len(ks) : p < q => FirstAt(ks[p]) < FirstAt(ks[q])

\* The text with every '\n' replaced by the terminator term.
RECURSIVE WithTerminator(_, _)
WithTerminator(t, term) ==
  IF t = <<>> THEN <<>>
  ELSE (IF t[1] = NL THEN term ELSE <<t[1]>>) \o WithTerminator(Tail(t), term)

(***************************************************************************)
(* C16.  parseCSV gives the same rows whichever line terminator the text   *)
(* uses: replacing every '\n' by '\r\n' or by '\r' does not change the     *)
(* parsed rows.                                                            *)
(***************************************************************************)
C16_TerminatorIndependent ==
  (Done /\ origin = "text")
    => /\ parseCSV(WithTerminator(csvString, <<CR, NL>>)) = parsed
       /\ parseCSV(WithTerminator(csvString, <<CR>>)) = parsed

\* A text with '\n' terminators that parsed to at least one row.
C16_Witness ==
  Done /\ origin = "text" /\ Includes(csvString, NL) /\ Len(parsed) >= 1

\* The text has no line terminator at all.
SingleLine == ~Includes(csvString, NL) /\ ~Includes(csvString, CR)

\* The text has a header line and only blank data lines.
HeaderOnly ==
  LET lns == SplitOn(Normalize(csvString), NL)
  IN  Len(lns) >= 2 /\ \A k \in 2..Len(lns) : IsBlank(lns[k])

(***************************************************************************)
(* C17.  parseCSV returns an empty row list for the empty text, for a text *)
(* with a single line, and for a text that has a header line but no        *)
(* non-blank data line.                                                    *)
(***************************************************************************)
C17_SoftEmpty ==
  (Done /\ (csvString = <<>> \/ SingleLine \/ HeaderOnly)) => parsed = <<>>

\* A header line followed only by a line of blanks was read to the end.
C17_Witness ==
  /\ Done /\ origin = "text" /\ HeaderOnly /\ Len(lines) >= 3
  /\ \E k \in 2..Len(lines) : lines[k] # <<>>

\* The value with every double quote written twice.
RECURSIVE Doubled(_)
Doubled(v) ==
  IF v = <<>> THEN <<>>
  ELSE IF Head(v) = Quote THEN <<Quote, Quote>> \o Doubled(Tail(v))
  ELSE <<Head(v)>> \o Doubled(Tail(v))

NeedsQuoting(v) == \E k \in 1..Len(v) : v[k] \in {Comma, Quote, NL}

\* The value the row written last has under the k-th header, '' if missing.
WrittenValue(k) ==
  LET row  == objs[index]
      name == csvHeaders(objs, hdrArg)[k]
  IN  IF \E j \in 1..Len(row) : row[j].key = name
        THEN row[CHOOSE j \in 1..Len(row) : row[j].key = name].value
        ELSE <<>>

(***************************************************************************)
(* C18.  objectsToCSV emits a field wrapped in double quotes with each     *)
(* internal double quote doubled if and only if the value contains a       *)
(* comma, a double quote or a newline; every other value is emitted        *)
(* unchanged, and a key missing from a row is emitted as an empty field.   *)
(***************************************************************************)
C18_QuotingRule ==
  (pc = "write" /\ index > 0)
    => /\ Len(rowValues) = Len(csvHeaders(objs, hdrArg))
       /\ \A k \in 1..Len(rowValues) :
            rowValues[k] = IF NeedsQuoting(WrittenValue(k))
                             THEN <<Quote>> \o Doubled(WrittenValue(k)) \o <<Quote>>
                             ELSE WrittenValue(k)

\* A row was written that lacks a header key and holds a newline value.
C18_Witness ==
  /\ pc = "write" /\ index > 0
  /\ \E k \in 1..Len(rowValues) :
        ~HasKey(objs[index], csvHeaders(objs, hdrArg)[k]) /\ rowValues[k] = <<>>
  /\ \E k \in 1..Len(rowValues) :
        Includes(WrittenValue(k), NL) /\ rowValues[k][1] = Quote

(***************************************************************************)
(* C19.  None of parseCSV, splitData and objectsToCSV raises, each returns *)
(* a value of its declared shape, and every row in a splitData result has  *)
(* string values for all columns of the input rows.                        *)
(***************************************************************************)
C19_WellTypedResult ==
  Done =>
    \A s \in Slots : \A i \in InputIndexes :
       DOMAIN data[i + 1] \subseteq DOMAIN EntryAt(s).row

(***************************************************************************)
(* C20.  Once the user has cleared the file or reset, and until the user   *)
(* selects another file, the parsed document (csvData, headers) is empty   *)
(* and the allocation result (processedData, hasProcessed) is empty and    *)
(* false, whenever the read started by an earlier selection settles.       *)
(***************************************************************************)
C20_ClearedStaysEmpty ==
  (pc = "form" /\ file = "none")
    => /\ csvData = <<>>
       /\ formHeaders = <<>>
       /\ processedData = EmptyResult
       /\ hasProcessed = FALSE

(***************************************************************************)
(* Vocabulary of the form properties.                                      *)
(***************************************************************************)
\* The configs a click on 'Process CSV' hands to splitData.
PassedConfigs == validConfigs(splitConfigs)

\* The allocator's result for the form as it stands.
AllocatorResult == splitDataIdx(AsRecords(csvData), PassedConfigs)

\* The number of records in all groups of a result.
RECURSIVE TotalRecords(_)
TotalRecords(res) ==
  IF DOMAIN res = {} THEN 0
  ELSE LET k == CHOOSE k \in DOMAIN res : TRUE
       IN  Len(res[k]) + TotalRecords([j \in DOMAIN res \ {k} |-> res[j]])

(***************************************************************************)
(* C21.  For every content of the text fields that passes validateInputs,  *)
(* every config that handleProcess passes to splitData has a non-blank     *)
(* accountName, a non-blank sentType and a splitSize that is a             *)
(* non-negative integer.                                                   *)
(***************************************************************************)
C21_PassedConfigsWellFormed ==
  (pc = "form" /\ validateInputs)
    => \A k \in 1..Len(PassedConfigs) :
          /\ PassedConfigs[k].accountName # ""
          /\ PassedConfigs[k].sentType # ""
          /\ PassedConfigs[k].splitSize \in Nat

\* '<accountName>_<sentType>' of the k-th config passed to splitData.
ConfigPrefix(k) == PassedConfigs[k].accountName \o "_" \o PassedConfigs[k].sentType

\* The keys that start with the prefix, among the shapes a displayed key
\* takes: the prefix itself, or the prefix, '_' and a number or NaN.
PrefixedBy(prefix) ==
  {prefix, prefix \o "_NaN"}
    \cup {prefix \o "_" \o ToString(n) : n \in 0..(MaxSubmitRows + 1)}

(***************************************************************************)
(* C28.  After handleProcess has stripped the index suffix from the        *)
(* allocator's keys, for any account names and sent types (also ones with  *)
(* '_' in them, and configs that repeat an account and sent type), the     *)
(* displayed map has as many groups as the allocator's result and as many  *)
(* records in total, and the group of each config is displayed under a key *)
(* that starts with '<accountName>_<sentType>' of that config.             *)
(***************************************************************************)
C28_DisplayKeepsGroups ==
  (pc = "form" /\ file = SubmitFile /\ hasProcessed)
    => /\ Cardinality(DOMAIN processedData) = Cardinality(DOMAIN AllocatorResult)
       /\ TotalRecords(processedData) = TotalRecords(AllocatorResult)
       /\ \A k \in 1..Len(PassedConfigs) :
            IdxKey(PassedConfigs[k], k - 1) \in DOMAIN AllocatorResult
              => \E d \in DOMAIN processedData :
                    /\ processedData[d] = AllocatorResult[IdxKey(PassedConfigs[k], k - 1)]
                    /\ d \in PrefixedBy(ConfigPrefix(k))

\* The first two parts of C28 alone: no allocator group is overwritten.
C28_DisplayKeepsGroups_Counts ==
  (pc = "form" /\ file = SubmitFile /\ hasProcessed)
    => /\ Cardinality(DOMAIN processedData) = Cardinality(DOMAIN AllocatorResult)
       /\ TotalRecords(processedData) = TotalRecords(AllocatorResult)
(***************************************************************************)
(* Vocabulary of the two-pass allocator properties.                        *)
(***************************************************************************)
\* The input positions of the rows in the group of the k-th config.
SourcesOf(k) == { GroupOf(k)[p].src : p \in 1..Len(GroupOf(k)) }

\* Every row of the group of config i comes before every row of the group
\* of config j in the input.
Precedes(i, j) == \A a \in SourcesOf(i) : \A b \in SourcesOf(j) : a < b

(***************************************************************************)
(* C22.  The two-pass splitData serves the configs in the order given: for *)
(* configs i < j (with pairwise distinct keys) that both receive rows,     *)
(* every row of group i precedes every row of group j in the input, also   *)
(* when a config without a quota comes before a config with a positive     *)
(* quota.                                                                  *)
(***************************************************************************)
C22_ServedInOrderGiven ==
  (Done /\ NumRows > 0 /\ NumConfigs > 0 /\ DistinctKeys)
    => \A i, j \in 1..NumConfigs :
         (i < j /\ GroupOf(i) # <<>> /\ GroupOf(j) # <<>>) => Precedes(i, j)

(***************************************************************************)
(* C23.  For a non-empty row list and a non-empty config list with         *)
(* pairwise distinct keys and any integer quotas, the groups returned by   *)
(* the two-pass splitData partition the input: the group sizes sum to the  *)
(* number of rows, every input position occurs in exactly one group, and   *)
(* the groups are those of the configs and at most one "_remainder" group. *)
(***************************************************************************)
C23_TwoPassPartition ==
  (Done /\ NumRows > 0 /\ NumConfigs > 0 /\ DistinctKeys)
    => /\ Cardinality(Slots) = NumRows
       /\ \A i \in InputIndexes :
            Cardinality({s \in Slots : EntryAt(s).src = i}) = 1
       /\ DOMAIN result \subseteq ConfigKeys \cup {RemainderKey(LastConfig)}

(***************************************************************************)
(* C24.  In the splitData of csvUtils.ts the allocation cursor is          *)
(* well-behaved for every config list with integer quotas >= 0: in every   *)
(* step recordsForThisSplit ends >= 0, startIndex does not decrease, and   *)
(* startIndex stays within 0..len(data).                                   *)
(***************************************************************************)
C24_CursorWellBehaved ==
  [][NonNegativeQuotas =>
       /\ recordsForThisSplit' >= 0
       /\ startIndex' >= startIndex
       /\ startIndex' \in 0..NumRows]_vars

(***************************************************************************)
(* Vocabulary of the restricted round trip.                                *)
(***************************************************************************)
\* No double quote, no '\n', no '\r', no leading or trailing whitespace.
IsPlain(t) ==
  /\ \A k \in 1..Len(t) : t[k] \notin {Quote, NL, CR}
  /\ Trim(t) = t

\* A non-empty list of rows over the distinct, non-empty, plain header names
\* handed to objectsToCSV, every value plain, no row written as a blank line.
IsRestrictedInput ==
  /\ origin = "rows"
  /\ Len(objs) > 0
  /\ hdrArg.given
  /\ \A j, k \in 1..Len(hdrArg.names) : j # k => hdrArg.names[j] # hdrArg.names[k]
  /\ \A k \in 1..Len(hdrArg.names) : hdrArg.names[k] # <<>> /\ IsPlain(hdrArg.names[k])
  /\ \A i \in 1..Len(objs) :
        /\ Keys(objs[i]) = hdrArg.names
        /\ \A k \in 1..Len(objs[i]) : IsPlain(objs[i][k].value)
        /\ ~IsBlank(Join(RowValuesOf(objs[i], hdrArg.names), Comma))

(***************************************************************************)
(* C25.  Restricted round trip: for a non-empty row list over distinct,    *)
(* non-empty header names, where header names and values hold no double    *)
(* quote, no '\n', no '\r' and no leading or trailing whitespace (values    *)
(* may hold commas) and no row is written as a blank line,                 *)
(* parseCSV(objectsToCSV(rows, headers)) equals rows, field for field and  *)
(* in order.                                                               *)
(***************************************************************************)
C25_RestrictedRoundTrip ==
  (Done /\ IsRestrictedInput) => parsed = objs

\* The same for header names without a comma; not the claim.
C25_CommaFreeHeaders ==
  (Done /\ IsRestrictedInput
        /\ \A k \in 1..Len(hdrArg.names) : ~Includes(hdrArg.names[k], Comma))
    => parsed = objs

(***************************************************************************)
(* Vocabulary of the page properties.                                      *)
(***************************************************************************)
\* No read of SplitterForm is pending.
ReadsSettled == \A f \in FileNames : reading[f] = 0

\* The rows handleFileSelected stores for a file.
RowsOfFile(f) == parseCSV(TextOf(f))

\* The results panel is rendered.
PanelShown == hasProcessed /\ DOMAIN processedData # {}

\* Every displayed record is a row of file f with the two tags added.
DisplaysRowsOf(f) ==
  \A key \in DOMAIN processedData :
    \A p \in 1..Len(processedData[key]) :
      \E k \in 1..Len(RowsOfFile(f)) :
        LET shown == processedData[key][p].row
            row   == AsRecord(RowsOfFile(f)[k])
        IN  \A c \in DOMAIN row \ Reserved : c \in DOMAIN shown /\ shown[c] = row[c]

(***************************************************************************)
(* C26.  When the user selects file A and then file B, then once the reads *)
(* have completed, csvData and headers are those parsed from B, the file   *)
(* shown as selected, whichever read completes first: with every read      *)
(* settling with its text, a page with a selected file and no pending read *)
(* holds the rows of that file and, when it has rows, their headers.       *)
(***************************************************************************)
C26_LastSelectionWins ==
  (pc = "form" /\ file # "none" /\ ReadsSettled)
    => /\ csvData = RowsOfFile(file)
       /\ Len(RowsOfFile(file)) > 0 => formHeaders = Keys(RowsOfFile(file)[1])

(***************************************************************************)
(* C27.  Whenever the results panel is shown, processedData was computed   *)
(* from the rows of the currently selected file: every displayed record is *)
(* a row of that file, also when 'Process CSV' is clicked after a new file *)
(* was selected and before its read completed.                             *)
(***************************************************************************)
C27_ResultsOfSelectedFile ==
  (pc = "form" /\ PanelShown) => file # "none" /\ DisplaysRowsOf(file)

(***************************************************************************)
(* C29.  SplitterForm keeps at least two config rows: after any sequence   *)
(* of add-row, remove-row, field-edit and reset actions splitConfigs has   *)
(* length >= 2, and remove-row on a two-row form changes nothing.          *)
(***************************************************************************)
C29_AtLeastTwoRows ==
  /\ [](pc = "form" => Len(splitConfigs) >= 2)
  /\ [][(Len(splitConfigs) = 2 /\ \E i \in 1..2 : RemoveRow(i))
          => splitConfigs' = splitConfigs]_vars

\* A third row was added and filled in.
C29_Witness ==
  /\ pc = "form"
  /\ Len(splitConfigs) = 3
  /\ splitConfigs[3].accountName # <<>>
  /\ splitConfigs[1] = BlankConfig

(***************************************************************************)
(* C30.  Index and SplitterForm stay consistent: whenever the form has no  *)
(* selected file and no read is pending, the original-data preview of the  *)
(* page is empty.                                                          *)
(***************************************************************************)
C30_PreviewClearedWithFile ==
  (pc = "form" /\ file = "none" /\ Pending = 0) => originalData = <<>>

====
